---- MODULE Spec2Model ----
(***************************************************************************)
(* Model of the adaptive natural-language task pipeline of                 *)
(* simple-todo-vercel:                                                     *)
(*   - the client draft queue of src/components/TodoApp.tsx                *)
(*     (enqueueDraftFromInput, the auto-process effect, processNextDraft,  *)
(*     getNextDraft, executeQuery), checked under Spec / FairSpec;         *)
(*   - the query route POST /api/ai/query with its tier selection,         *)
(*     escalation and provider failover, checked under QuerySpec.          *)
(*                                                                         *)
(* React state is modelled as the committed state.  A state update, the    *)
(* re-render it causes and the passive effects of that render form one     *)
(* step; updates issued in one synchronous continuation are batched into   *)
(* one render.  A timer callback runs with the closure of the render that  *)
(* created it, so the pending auto-process timer carries a snapshot of     *)
(* drafts and isProcessingDraft.                                           *)
(***************************************************************************)
EXTENDS Integers, Sequences, FiniteSets, TLC

\* ------------------------------------------------------------------ bounds
MaxSubmits == 2
MaxCandidates == 1

\* ------------------------------------------------- client: values and state
\* Math.random().toString(36).slice(2, 8): the random part of a draft id
Suffixes == {"k3f9x1"}
\* what the user may have typed when Enter is pressed
RawInputs == {"  ", "buy milk "}
\* err.message of an exception thrown by fetch() or response.json()
ThrownMessages == {"", "Load failed"}
\* an identifier that is no todo's id (serial ids start at 1)
ForeignId == 0

VARIABLES
    now,                \* Date.now() at the latest submission
    drafts,             \* useState<Draft[]>: newest first
    isProcessingDraft,  \* useState(false)
    timer,              \* the pending 100 ms auto-process timer and its closure
    classify,           \* per draft id: the /api/ai/query call of its submission
                        \* (isQuery: the result.isQuery its continuation saw)
    workers,            \* running processNextDraft invocations
    stored,             \* rows of the todos table created through POST /api/todos
    todos,              \* useState<Todo[]>: ids, newest first
    filteredTodoIds,    \* useState<Set<number>>
    queryClearTimer,    \* useState<Timeout | null>: a 10 s auto-clear timer is pending
    extractCalls        \* history: draft id -> number of /api/ai/extract calls

clientVars == <<now, drafts, isProcessingDraft, timer, classify, workers,
                stored, todos, filteredTodoIds, queryClearTimer,
                extractCalls>>

\* the query route (its actions follow the client's)
VARIABLES
    anthropicKey,      \* process.env.ANTHROPIC_API_KEY is set
    openaiKey,         \* process.env.OPENAI_API_KEY is set
    req,               \* per request: pc, input and the locals of POST
    escalationCount,   \* per counter cell: let escalationCount
    calls              \* history, per request: the provider invocations made

queryVars == <<anthropicKey, openaiKey, req, escalationCount, calls>>

\* ------------------------------------------------------- the todos routes
\* Clerk user ids; NoUser is auth() returning no userId
Users == {"user_a", "user_b"}
NoUser == "none"

\* rows inserted over a run
MaxRows == 2

\* toggleTodo and deleteTodo calls over a run
MaxOps == 3

\* the response to a request: the handler, the caller, the status and the
\* rows in the body
NoResponse == [op |-> "none", caller |-> NoUser, status |-> 0, body |-> {}]

\* evaluation of a pure function of src/lib/modelSelector.ts on one input:
\* the function, its argument, whether it has returned, and its result
VARIABLES probe

pureVars == <<probe>>

NoProbe == [fn |-> "none", input |-> <<>>, done |-> FALSE, output |-> <<>>]

IdleExtraction == [pc |-> "idle", input |-> <<>>, calls |-> <<>>, status |-> 0]

\* the extract route: the pc of its one request, the request's input, the
\* provider invocations made for it and the status of the response
VARIABLES extraction

extractVars == <<extraction>>

\* the todos routes: the rows of the todos table, the next serial id and
\* the last response sent
VARIABLES todoRows, nextRowId, response

todosVars == <<todoRows, nextRowId, response>>

TodosInit ==
    /\ todoRows = {}
    /\ nextRowId = 1
    /\ response = NoResponse

\* the todo list of the client as toggleTodo and deleteTodo see it: the
\* todos state with its records, and the handler calls started so far, each
\* with the values its closure captured
VARIABLES todoList, listOps

listVars == <<todoList, listOps>>

ListIdle ==
    /\ todoList = <<>>
    /\ listOps = {}

\* calls of trackUsage for one user
MaxTrackCalls == 3

TrackIds == 1..MaxTrackCalls

\* the row of the user in the usage table (user_id is unique) and the
\* trackUsage calls: where each is, what its select saw, what its catch caught
VARIABLES usage, tracking

usageVars == <<usage, tracking>>

NoUsageRow == [exists |-> FALSE, totalRequests |-> 0]

IdleTracking == [pc |-> "idle", existing |-> FALSE, caught |-> "none"]

UsageIdle ==
    /\ usage = NoUsageRow
    /\ tracking = [c \in TrackIds |-> IdleTracking]

nonClientVars == <<queryVars, pureVars, extractVars, todosVars, listVars, usageVars>>
nonQueryVars == <<clientVars, pureVars, extractVars, todosVars, listVars, usageVars>>
nonPureVars == <<clientVars, queryVars, extractVars, todosVars, listVars, usageVars>>
nonExtractVars == <<clientVars, queryVars, pureVars, todosVars, listVars, usageVars>>
nonTodosVars == <<clientVars, queryVars, pureVars, extractVars, listVars, usageVars>>
nonListVars == <<clientVars, queryVars, pureVars, extractVars, usageVars>>
nonUsageVars == <<clientVars, queryVars, pureVars, extractVars, todosVars, listVars>>

NoTimer == [set |-> FALSE, drafts |-> <<>>, isProcessingDraft |-> FALSE]
NoDraft == [id |-> <<0, "">>, text |-> "", status |-> "none", error |-> ""]

\* String.prototype.trim on the inputs above
Trim(s) == CASE s = "  " -> ""
             [] s = "buy milk " -> "buy milk"
             [] OTHER -> s

Range(s) == {s[i] : i \in 1..Len(s)}

DraftIds(ds) == {ds[i].id : i \in 1..Len(ds)}

\* drafts.some((d) => d.status === "queued")
hasQueuedDrafts(ds) == \E i \in 1..Len(ds) : ds[i].status = "queued"

\* getNextDraft: the last queued element of the array
getNextDraftFirst(ds) ==
    LET queued == SelectSeq(ds, LAMBDA d : d.status = "queued")
    IN  IF Len(queued) = 0 THEN NoDraft ELSE queued[1]

getNextDraftAnyStatus(ds) ==
    LET queued == SelectSeq(ds, LAMBDA d : d.status # "processing")
    IN  IF Len(queued) = 0 THEN NoDraft ELSE queued[Len(queued)]

getNextDraft(ds) ==
    LET queued == SelectSeq(ds, LAMBDA d : d.status = "queued")
    IN  IF Len(queued) = 0 THEN NoDraft ELSE queued[Len(queued)]

\* prev.map((d) => d.id === next.id ? {...d, status: "processing", error: undefined} : d)
markProcessingAllQueued(ds, id) ==
    [i \in 1..Len(ds) |->
        IF ds[i].status = "queued"
        THEN [ds[i] EXCEPT !.status = "processing", !.error = ""]
        ELSE ds[i]]

markProcessing(ds, id) ==
    [i \in 1..Len(ds) |->
        IF ds[i].id = id
        THEN [ds[i] EXCEPT !.status = "processing", !.error = ""]
        ELSE ds[i]]

\* err?.message || "Failed"
errorText(message) == IF message = "" THEN "Failed" ELSE message

\* prev.map((d) => d.id === next.id ? {...d, status: "error", error: ...} : d)
markErrorOthers(ds, id, message) ==
    [i \in 1..Len(ds) |->
        IF ds[i].id # id
        THEN [ds[i] EXCEPT !.status = "error", !.error = errorText(message)]
        ELSE ds[i]]

markErrorRequeue(ds, id, message) ==
    [i \in 1..Len(ds) |->
        IF ds[i].id = id
        THEN [ds[i] EXCEPT !.status = "queued", !.error = errorText(message)]
        ELSE ds[i]]

markError(ds, id, message) ==
    [i \in 1..Len(ds) |->
        IF ds[i].id = id
        THEN [ds[i] EXCEPT !.status = "error", !.error = errorText(message)]
        ELSE ds[i]]

\* prev.filter((d) => d.id !== id)
removeDraft(ds, id) == SelectSeq(ds, LAMBDA d : d.id # id)

autoProcessEffectUnguarded(ds, p) ==
    IF hasQueuedDrafts(ds)
    THEN [set |-> TRUE, drafts |-> ds, isProcessingDraft |-> p]
    ELSE NoTimer

\* The auto-process effect body, run for a render with state (ds, p)
autoProcessEffect(ds, p) ==
    IF ~p /\ hasQueuedDrafts(ds)
    THEN [set |-> TRUE, drafts |-> ds, isProcessingDraft |-> p]
    ELSE NoTimer

\* Commit of a render with state (ds, p): the effect is re-run (cleanup of the
\* old timer, then the body) only when a dependency [drafts.length,
\* isProcessingDraft] differs from the previous render.
commitTimer(ds, p, pending) ==
    IF Len(ds) # Len(drafts) \/ p # isProcessingDraft
    THEN autoProcessEffect(ds, p)
    ELSE pending


\* ---------------------------------------------------------- client: actions
classifyRequestSkipped(corpus) ==
    [pc |-> "done", isQuery |-> FALSE, corpus |-> corpus]

\* fetch("/api/ai/query", {body: {text, todos}}): the call is in flight
classifyRequest(corpus) ==
    [pc |-> "pending", isQuery |-> FALSE, corpus |-> corpus]

createDraftProcessing(id, text) ==
    [id |-> id, text |-> text, status |-> "processing", error |-> ""]

\* const draft: Draft = {id, text, status: "queued", createdAt}
createDraft(id, text) ==
    [id |-> id, text |-> text, status |-> "queued", error |-> ""]

\* enqueueDraftFromInput up to its first await: trim, early return on empty
\* text, draft creation (id = Date.now() + random suffix), setDrafts prepend,
\* then the /api/ai/query request with the todos of the calling render.
\* elapsed: milliseconds since the previous submission.
enqueueDraftFromInput(raw, suffix, elapsed) ==
    LET text == Trim(raw)
        t == now + elapsed
        draft == createDraft(<<t, suffix>>, text)
        ds == <<draft>> \o drafts
    IN  /\ now < MaxSubmits
        /\ IF text = ""
           THEN UNCHANGED clientVars
           ELSE /\ now' = t
                /\ drafts' = ds
                /\ timer' = commitTimer(ds, isProcessingDraft, timer)
                /\ classify' = [i \in DOMAIN classify \cup {draft.id} |->
                                   IF i = draft.id
                                   THEN classifyRequest(Range(todos))
                                   ELSE classify[i]]
                /\ extractCalls' = [i \in DOMAIN extractCalls \cup {draft.id} |->
                                       IF i \in DOMAIN extractCalls THEN extractCalls[i] ELSE 0]
                /\ UNCHANGED <<isProcessingDraft, workers, stored, todos,
                               filteredTodoIds, queryClearTimer>>

\* executeQuery: the old auto-clear timer is cancelled (by the handler or by
\* the cleanup effect on [queryClearTimer]), the matchingTodoIds of the result
\* become the filtered set and a new 10 s timer is armed.  activeQuery is set
\* and cleared together with filteredTodoIds and is not modelled separately.
executeQuery(matchingTodoIds) ==
    /\ filteredTodoIds' = matchingTodoIds
    /\ queryClearTimer' = TRUE

\* The 10 s auto-clear timer of executeQuery fires.
queryAutoClear ==
    /\ queryClearTimer
    /\ filteredTodoIds' = {}
    /\ queryClearTimer' = FALSE
    /\ UNCHANGED <<now, drafts, isProcessingDraft, timer, classify, workers,
                   stored, todos, extractCalls>>
    /\ UNCHANGED nonClientVars

treatedAsQueryOrFailed(outcome) == outcome \in {"query", "failed"}

\* if (queryResult.isQuery): reached only when the request did not fail
treatedAsQuery(outcome) == outcome = "query"

\* The continuation of enqueueDraftFromInput after the /api/ai/query call.
\*   outcome "failed"   : fetch threw or the response was not OK (catch: keep)
\*   outcome "creation" : isQuery = false (draft stays)
\*   outcome "query"    : isQuery = true (remove the draft, execute the query)
classifyReturn(id, outcome, matching) ==
    /\ id \in DOMAIN classify
    /\ classify[id].pc = "pending"
    /\ classify' = [classify EXCEPT ![id] =
                       [@ EXCEPT !.pc = IF outcome = "failed" THEN "failed" ELSE "done",
                                  !.isQuery = treatedAsQuery(outcome),
                                  !.corpus = {}]]
    /\ IF treatedAsQuery(outcome)
       THEN LET ds == removeDraft(drafts, id)
            IN  /\ drafts' = ds
                /\ timer' = commitTimer(ds, isProcessingDraft, timer)
                /\ executeQuery(matching)
       ELSE UNCHANGED <<drafts, timer, filteredTodoIds, queryClearTimer>>
    /\ UNCHANGED <<now, isProcessingDraft, workers, stored, todos, extractCalls>>

\* The 100 ms timer fires: processNextDraft of the render that set the timer,
\* up to its first await (the /api/ai/extract request).
processNextDraft ==
    /\ timer.set
    /\ LET next == getNextDraft(timer.drafts)
       IN  IF timer.isProcessingDraft \/ next = NoDraft
           THEN /\ timer' = NoTimer
                /\ UNCHANGED <<drafts, isProcessingDraft, workers, extractCalls>>
           ELSE LET ds == markProcessing(drafts, next.id)
                IN  /\ drafts' = ds
                    /\ isProcessingDraft' = TRUE
                    /\ timer' = commitTimer(ds, TRUE, NoTimer)
                    /\ workers' = workers \cup
                          {[id |-> next.id, text |-> next.text, pc |-> "extract",
                            cands |-> <<>>, saved |-> <<>>]}
                    /\ extractCalls' = [extractCalls EXCEPT ![next.id] = @ + 1]
    /\ UNCHANGED <<now, classify, stored, todos, filteredTodoIds, queryClearTimer>>
    /\ UNCHANGED nonClientVars

\* The tail of processNextDraft on success: the draft is filtered out of the
\* queue and (finally) the flag is cleared, in one batch.
finishRemoved(w) ==
    LET ds == removeDraft(drafts, w.id)
    IN  /\ drafts' = ds
        /\ isProcessingDraft' = FALSE
        /\ timer' = commitTimer(ds, FALSE, timer)
        /\ workers' = workers \ {w}

\* catch + finally of processNextDraft: the draft is marked error with the
\* message and the flag is cleared, in one batch.
finishErrorKeepFlag(w, message) ==
    LET ds == markError(drafts, w.id, message)
    IN  /\ drafts' = ds
        /\ isProcessingDraft' = isProcessingDraft
        /\ timer' = commitTimer(ds, isProcessingDraft, timer)
        /\ workers' = workers \ {w}

finishError(w, message) ==
    LET ds == markError(drafts, w.id, message)
    IN  /\ drafts' = ds
        /\ isProcessingDraft' = FALSE
        /\ timer' = commitTimer(ds, FALSE, timer)
        /\ workers' = workers \ {w}

\* result.todos as returned by /api/ai/extract: each element either has a
\* string text ("ok") or not ("bad")
CandidateLists ==
    UNION {[1..n -> {"ok", "bad"}] : n \in 0..MaxCandidates}

\* the elements the save loop does not skip
validCandidates(cs) == SelectSeq(cs, LAMBDA c : c = "ok")

\* The /api/ai/extract call of a worker returns.
\*   "notOk"    : !response.ok            -> throw "Failed to extract todos"
\*   "threw"    : fetch/json threw        -> err.message = message
\*   "badShape" : todos is not an array   -> throw "AI returned invalid response"
\*   "ok"       : result.todos = cs
extractReturn(w, outcome, cs, message) ==
    /\ w \in workers
    /\ w.pc = "extract"
    /\ CASE outcome = "notOk" -> finishError(w, "Failed to extract todos")
         [] outcome = "threw" -> finishError(w, message)
         [] outcome = "badShape" -> finishError(w, "AI returned invalid response")
         [] OTHER ->
              IF validCandidates(cs) = <<>>
              THEN finishRemoved(w)
              ELSE /\ workers' = (workers \ {w}) \cup
                        {[w EXCEPT !.pc = "save", !.cands = validCandidates(cs)]}
                   /\ UNCHANGED <<drafts, isProcessingDraft, timer>>
    /\ UNCHANGED <<now, classify, stored, todos, filteredTodoIds, queryClearTimer, extractCalls>>

\* POST /api/todos: the row the insert creates (ids are serial)
nextTodoId == Cardinality(stored) + 1

\* The POST /api/todos call for the head candidate returns.
\*   "ok"    : 201, the row was inserted and is pushed onto savedTodos
\*   "notOk" : 4xx/5xx, nothing inserted, the candidate is skipped silently
\*   "threw" : fetch threw after the request was (inserted=TRUE) or was not
\*             (inserted=FALSE) carried out by the server
saveReturn(w, outcome, inserted, message) ==
    /\ w \in workers
    /\ w.pc = "save"
    /\ LET row == [id |-> nextTodoId, draft |-> w.id]
           rest == Tail(w.cands)
           saved == IF outcome = "ok" THEN Append(w.saved, row.id) ELSE w.saved
       IN  /\ stored' = IF outcome = "ok" \/ (outcome = "threw" /\ inserted)
                        THEN stored \cup {row} ELSE stored
           /\ IF outcome = "threw"
              THEN finishError(w, message)
              ELSE IF rest # <<>>
              THEN /\ workers' = (workers \ {w}) \cup
                        {[w EXCEPT !.cands = rest, !.saved = saved]}
                   /\ UNCHANGED <<drafts, isProcessingDraft, timer>>
              ELSE IF saved # <<>>
              THEN /\ workers' = (workers \ {w}) \cup
                        {[w EXCEPT !.pc = "animate", !.cands = rest, !.saved = saved]}
                   /\ UNCHANGED <<drafts, isProcessingDraft, timer>>
              ELSE finishRemoved(w)
    /\ UNCHANGED <<now, classify, todos, filteredTodoIds, queryClearTimer, extractCalls>>

\* One 250 ms step of the staggered animation: the head of savedTodos is
\* prepended to todos; after the last one the draft is removed.
animateStep(w) ==
    /\ w \in workers
    /\ w.pc = "animate"
    /\ todos' = <<Head(w.saved)>> \o todos
    /\ IF Tail(w.saved) # <<>>
       THEN /\ workers' = (workers \ {w}) \cup {[w EXCEPT !.saved = Tail(w.saved)]}
            /\ UNCHANGED <<drafts, isProcessingDraft, timer>>
       ELSE finishRemoved(w)
    /\ UNCHANGED <<now, classify, stored, filteredTodoIds, queryClearTimer, extractCalls>>

\* what the query route may answer as matchingTodoIds for a corpus
MatchChoices(corpus) == {{}, corpus, corpus \cup {ForeignId}}

ClientInit ==
    /\ now = 0
    /\ drafts = <<>>
    /\ isProcessingDraft = FALSE
    /\ timer = NoTimer
    /\ classify = <<>>
    /\ workers = {}
    /\ stored = {}
    /\ todos = <<>>
    /\ filteredTodoIds = {}
    /\ queryClearTimer = FALSE
    /\ extractCalls = <<>>

\* The user submits the input field.  Two submissions are at least one
\* millisecond apart, so Date.now() differs between them.
Submit ==
    /\ \E raw \in RawInputs, suffix \in Suffixes : enqueueDraftFromInput(raw, suffix, 1)
    /\ UNCHANGED nonClientVars

ClassifyDone ==
    /\ \E id \in DOMAIN classify :
          \/ \E outcome \in {"failed", "creation"} : classifyReturn(id, outcome, {})
          \/ \E m \in MatchChoices(classify[id].corpus) : classifyReturn(id, "query", m)
    /\ UNCHANGED nonClientVars

ExtractDone ==
    /\ \E w \in workers :
          \/ \E outcome \in {"notOk", "badShape"} : extractReturn(w, outcome, <<>>, "")
          \/ \E message \in ThrownMessages : extractReturn(w, "threw", <<>>, message)
          \/ \E cs \in CandidateLists : extractReturn(w, "ok", cs, "")
    /\ UNCHANGED nonClientVars

SaveDone ==
    /\ \E w \in workers :
          \/ \E outcome \in {"ok", "notOk"} : saveReturn(w, outcome, FALSE, "")
          \/ \E inserted \in BOOLEAN, message \in ThrownMessages :
                 saveReturn(w, "threw", inserted, message)
    /\ UNCHANGED nonClientVars

AnimateDone ==
    /\ \E w \in workers : animateStep(w)
    /\ UNCHANGED nonClientVars

\* ---------------------------------------------- query route: values, state
\* The route POST /api/ai/query.  Requests run concurrently; each has its own
\* locals (escalationCount, modelSelection, result, usedTier).
Requests == {"r1", "r2"}

MAX_ESCALATIONS_PER_REQUEST == 1
\* 0.7, in hundredths
LOW_CONFIDENCE_THRESHOLD == 70

\* sample request texts, with the outcome of the route's regular expressions
\* and keyword tests on each
QueryTexts == {"show me work stuff", "summarize my week"}

textLength(text) ==
    CASE text = "show me work stuff" -> 18
      [] text = "summarize my week" -> 17
      [] OTHER -> 0

\* /what|show|list|find|get|tell me|any|have/i
isQuestionAboutTodos(text) == text \in {"show me work stuff"}

\* /urgent|high|work|personal|today|tomorrow|this week/i
isSpecificQuery(text) == text \in {"show me work stuff"}

\* summaryKeywords.some((kw) => text.toLowerCase().includes(kw))
needsSummarization(text) == text \in {"summarize my week"}

\* ambiguousPatterns, filterKeywords (>= 2) and complexDatePatterns match
\* none of the sample texts
isAmbiguous(text) == text \in {}

hasMultipleFilters(text) == text \in {}

hasComplexDateMath(text) == text \in {}

\* the todos of a request body: the ids and JSON.stringify(todos).length
SmallCorpus == [ids |-> 1..2, chars |-> 492]
ElevenCorpus == [ids |-> 1..11, chars |-> 2697]
FiftyCorpus == [ids |-> 1..50, chars |-> 12252]
Corpora == {SmallCorpus, ElevenCorpus, FiftyCorpus}

\* the todos of a corpus that carry the tag work
WorkIds == 1..5
workTagged(corpus) == corpus.ids \cap WorkIds

\* request bodies and credentials: "ok", or the reason the route rejects it
RequestInputs ==
    [kind : {"ok"}, text : QueryTexts, todos : Corpora]
    \cup [kind : {"unauthorized", "badText", "badTodos"},
          text : {"show me work stuff"}, todos : {SmallCorpus}]

estimatedTokensFloor(chars) == chars \div 4

\* Math.ceil(chars / 4)
estimatedTokens(chars) == (chars + 3) \div 4

analyzeQueryComplexityTextOnly(text, corpus) ==
    [textLength |-> textLength(text),
     estimatedTokens |-> estimatedTokens(textLength(text)),
     todoCount |-> Cardinality(corpus.ids),
     hasMultipleFilters |-> hasMultipleFilters(text),
     isAmbiguous |-> isAmbiguous(text),
     needsSummarization |-> needsSummarization(text),
     hasComplexDateMath |-> hasComplexDateMath(text)]

\* analyzeQueryComplexity
analyzeQueryComplexity(text, corpus) ==
    [textLength |-> textLength(text),
     estimatedTokens |-> estimatedTokens(textLength(text) + corpus.chars),
     todoCount |-> Cardinality(corpus.ids),
     hasMultipleFilters |-> hasMultipleFilters(text),
     isAmbiguous |-> isAmbiguous(text),
     needsSummarization |-> needsSummarization(text),
     hasComplexDateMath |-> hasComplexDateMath(text)]

AdvancedSelection(reason) ==
    [tier |-> "advanced", reason |-> reason,
     anthropicModel |-> "claude-sonnet-4-5-20250929", openaiModel |-> "gpt-4.1"]

FastSelection(reason) ==
    [tier |-> "fast", reason |-> reason,
     anthropicModel |-> "claude-haiku-4-5-20251001", openaiModel |-> "o4-mini"]

\* selectExtractionModel after the analysis: the chain of triggers
extractionTierParagraphsFirst(analysis) ==
    IF analysis.paragraphCount > 2
    THEN AdvancedSelection("Multi-paragraph input (>2) needs context understanding")
    ELSE IF analysis.estimatedTokens > 1000
    THEN AdvancedSelection("Long input (>1k tokens) requires deeper processing")
    ELSE IF analysis.hasComplexDateReferences
    THEN AdvancedSelection("Complex date/time references require advanced reasoning")
    ELSE IF analysis.hasMultipleConstraints
    THEN AdvancedSelection("Multiple constraints require careful parsing")
    ELSE FastSelection("Simple, short input - fast model sufficient")

extractionTier(analysis) ==
    IF analysis.estimatedTokens > 1000
    THEN AdvancedSelection("Long input (>1k tokens) requires deeper processing")
    ELSE IF analysis.paragraphCount > 2
    THEN AdvancedSelection("Multi-paragraph input (>2) needs context understanding")
    ELSE IF analysis.hasComplexDateReferences
    THEN AdvancedSelection("Complex date/time references require advanced reasoning")
    ELSE IF analysis.hasMultipleConstraints
    THEN AdvancedSelection("Multiple constraints require careful parsing")
    ELSE FastSelection("Simple, short input - fast model sufficient")

queryTierWithoutSummarization(analysis) ==
    IF analysis.estimatedTokens > 1000
    THEN AdvancedSelection("Large context (>1k tokens) requires advanced processing")
    ELSE IF analysis.isAmbiguous
    THEN AdvancedSelection("Ambiguous input requires careful interpretation")
    ELSE IF analysis.hasMultipleFilters
    THEN AdvancedSelection("Multi-constraint query needs complex reasoning")
    ELSE IF analysis.hasComplexDateMath
    THEN AdvancedSelection("Complex date calculations require advanced reasoning")
    ELSE FastSelection("Simple, single-intent query - fast model sufficient")

\* selectQueryModel after the analysis: the chain of triggers
queryTier(analysis) ==
    IF analysis.estimatedTokens > 1000
    THEN AdvancedSelection("Large context (>1k tokens) requires advanced processing")
    ELSE IF analysis.isAmbiguous
    THEN AdvancedSelection("Ambiguous input requires careful interpretation")
    ELSE IF analysis.hasMultipleFilters
    THEN AdvancedSelection("Multi-constraint query needs complex reasoning")
    ELSE IF analysis.needsSummarization
    THEN AdvancedSelection("Summarization/planning requires high-quality prose")
    ELSE IF analysis.hasComplexDateMath
    THEN AdvancedSelection("Complex date calculations require advanced reasoning")
    ELSE FastSelection("Simple, single-intent query - fast model sufficient")

\* selectQueryModel
selectQueryModel(text, corpus) == queryTier(analyzeQueryComplexity(text, corpus))

\* the tier a model identifier belongs to
tierOf(model) ==
    IF model \in {"claude-sonnet-4-5-20250929", "gpt-4.1"} THEN "advanced" ELSE "fast"

\* what a provider may answer for a corpus: JSON.parse of the model's text.
\* confidence is in hundredths; hasConfidence = FALSE is confidence undefined.
QueryResults(corpus) ==
    {[isQuery |-> TRUE, matchingTodoIds |-> {}, hasConfidence |-> TRUE, confidence |-> 95],
     [isQuery |-> TRUE, matchingTodoIds |-> {1}, hasConfidence |-> TRUE, confidence |-> 69],
     [isQuery |-> TRUE, matchingTodoIds |-> {1}, hasConfidence |-> TRUE, confidence |-> 70],
     [isQuery |-> TRUE, matchingTodoIds |-> corpus.ids, hasConfidence |-> FALSE, confidence |-> 0],
     [isQuery |-> TRUE, matchingTodoIds |-> {ForeignId, 1}, hasConfidence |-> TRUE, confidence |-> 95],
     [isQuery |-> FALSE, matchingTodoIds |-> {}, hasConfidence |-> TRUE, confidence |-> 98],
     [isQuery |-> TRUE, matchingTodoIds |-> workTagged(corpus), hasConfidence |-> TRUE,
      confidence |-> 90]}

NoResult == [isQuery |-> FALSE, matchingTodoIds |-> {}, hasConfidence |-> FALSE, confidence |-> 0]

validateQueryResultsAnyResponse(result, text, corpus) ==
    LET matched == Cardinality(result.matchingTodoIds)
        total == Cardinality(corpus.ids)
        hasTodos == total > 0
    IN  IF isQuestionAboutTodos(text) /\ hasTodos /\ matched = 0
        THEN FALSE
        ELSE IF matched > 100
        THEN FALSE
        ELSE IF isSpecificQuery(text) /\ hasTodos /\ 10 * matched > 9 * total /\ total > 10
        THEN FALSE
        ELSE TRUE

validateQueryResultsCapInclusive(result, text, corpus) ==
    LET matched == Cardinality(result.matchingTodoIds)
        total == Cardinality(corpus.ids)
        hasTodos == total > 0
    IN  IF isQuestionAboutTodos(text) /\ hasTodos /\ matched = 0 /\ result.isQuery
        THEN FALSE
        ELSE IF matched >= 100
        THEN FALSE
        ELSE IF isSpecificQuery(text) /\ hasTodos /\ 10 * matched > 9 * total /\ total > 10
        THEN FALSE
        ELSE TRUE

\* validateQueryResults(result, text, corpus).isValid
validateQueryResults(result, text, corpus) ==
    LET matched == Cardinality(result.matchingTodoIds)
        total == Cardinality(corpus.ids)
        hasTodos == total > 0
    IN  IF isQuestionAboutTodos(text) /\ hasTodos /\ matched = 0 /\ result.isQuery
        THEN FALSE
        ELSE IF matched > 100
        THEN FALSE
        \* matched / total > 0.9
        ELSE IF isSpecificQuery(text) /\ hasTodos /\ 10 * matched > 9 * total /\ total > 10
        THEN FALSE
        ELSE TRUE

isLowConfidenceInclusive(result) ==
    result.hasConfidence /\ result.confidence <= LOW_CONFIDENCE_THRESHOLD

\* isLowConfidence(result).isLow
isLowConfidence(result) ==
    result.hasConfidence /\ result.confidence < LOW_CONFIDENCE_THRESHOLD

IdleRequest ==
    [pc |-> "idle", input |-> [kind |-> "none", text |-> "", todos |-> SmallCorpus],
     tier |-> "fast", usedTier |-> "fast", result |-> NoResult, status |-> 0,
     reportedTier |-> "none"]

\* the counter a request's escalation guard reads and increments: a local of
\* its own invocation of POST
counterShared(r) == "r1"

counterOf(r) == r

\* the model of the failover call: modelSelection.openaiModel
failoverModelAdvanced(selection) == "gpt-4.1"

failoverModel(selection) == selection.openaiModel

\* NextResponse.json(body, {status}): the request is finished
respondStale(r, status, result, usedTier) ==
    req' = [req EXCEPT ![r] = [@ EXCEPT !.pc = "done", !.status = 200,
                                        !.usedTier = usedTier]]

\* The body is the result object alone (or {error}); the local usedTier is
\* not part of it, so the response names no tier.
respond(r, status, result, usedTier) ==
    req' = [req EXCEPT ![r] = [@ EXCEPT !.pc = "done", !.status = status,
                                        !.result = result, !.usedTier = usedTier,
                                        !.reportedTier = "none"]]

\* POST up to its first provider call: authentication, body validation,
\* escalationCount = 0, model selection, provider choice.
postArrive(r, input) ==
    LET selection == selectQueryModel(input.text, input.todos)
        started == [req[r] EXCEPT !.input = input, !.tier = selection.tier,
                                  !.usedTier = selection.tier, !.result = NoResult,
                                  !.status = 0]
    IN  /\ req[r].pc \in {"idle", "done"}
        /\ calls' = [calls EXCEPT ![r] = IF input.kind = "ok" /\ (anthropicKey \/ openaiKey)
                                         THEN <<[provider |-> IF anthropicKey THEN "anthropic" ELSE "openai",
                                                 model |-> IF anthropicKey THEN selection.anthropicModel
                                                           ELSE selection.openaiModel,
                                                 why |-> "initial", cause |-> "none"]>>
                                         ELSE <<>>]
        /\ CASE input.kind = "unauthorized" ->
                  /\ req' = [req EXCEPT ![r] = [started EXCEPT !.pc = "done", !.status = 401]]
                  /\ UNCHANGED escalationCount
             [] input.kind \in {"badText", "badTodos"} ->
                  /\ req' = [req EXCEPT ![r] = [started EXCEPT !.pc = "done", !.status = 400]]
                  /\ UNCHANGED escalationCount
             [] OTHER ->
                  /\ escalationCount' = [escalationCount EXCEPT ![counterOf(r)] = 0]
                  /\ req' = [req EXCEPT ![r] =
                        IF anthropicKey THEN [started EXCEPT !.pc = "anthropicPrimary"]
                        ELSE IF openaiKey THEN [started EXCEPT !.pc = "openaiPrimary"]
                        ELSE [started EXCEPT !.pc = "done", !.status = 503]]
        /\ UNCHANGED <<anthropicKey, openaiKey>>

\* A provider call returns a parsed result.
providerReturns(r, result) ==
    LET me == req[r]
        selection == selectQueryModel(me.input.text, me.input.todos)
        flagged == isLowConfidence(result)
                   \/ ~validateQueryResults(result, me.input.text, me.input.todos)
        escalate == /\ me.pc \in {"anthropicPrimary", "openaiPrimary"}
                    /\ selection.tier = "fast"
                    /\ escalationCount[counterOf(r)] < MAX_ESCALATIONS_PER_REQUEST
                    /\ flagged
    IN  /\ me.pc \in {"anthropicPrimary", "anthropicEscalated", "openaiFailover",
                      "openaiPrimary", "openaiEscalated"}
        /\ IF escalate
           THEN /\ escalationCount' = [escalationCount EXCEPT ![counterOf(r)] = @ + 1]
                /\ req' = [req EXCEPT ![r] =
                      [@ EXCEPT !.pc = IF me.pc = "anthropicPrimary"
                                       THEN "anthropicEscalated" ELSE "openaiEscalated",
                                !.result = result]]
                /\ calls' = [calls EXCEPT ![r] = Append(@,
                      [provider |-> IF me.pc = "anthropicPrimary" THEN "anthropic" ELSE "openai",
                       model |-> IF me.pc = "anthropicPrimary"
                                 THEN "claude-sonnet-4-5-20250929" ELSE "gpt-4.1",
                       why |-> "escalation", cause |-> "none"])]
           ELSE /\ respond(r, 200, result,
                           IF me.pc \in {"anthropicEscalated", "openaiEscalated"}
                           THEN "advanced" ELSE me.usedTier)
                /\ UNCHANGED <<escalationCount, calls>>
        /\ UNCHANGED <<anthropicKey, openaiKey>>

\* why a provider call throws: the SDK call rejects (network, auth, rate
\* limit, 5xx), or the answer holds no text, no JSON object or unparsable JSON
FailureCauses == {"unavailable", "malformed"}

\* A provider call throws.  Inside the Anthropic try block the catch falls
\* back to OpenAI when a key is set, whatever was thrown; everywhere else the
\* outer catch answers 500.
providerThrows(r, cause) ==
    LET me == req[r]
        selection == selectQueryModel(me.input.text, me.input.todos)
    IN  /\ me.pc \in {"anthropicPrimary", "anthropicEscalated", "openaiFailover",
                      "openaiPrimary", "openaiEscalated"}
        /\ IF me.pc \in {"anthropicPrimary", "anthropicEscalated"} /\ openaiKey
           THEN /\ req' = [req EXCEPT ![r] = [@ EXCEPT !.pc = "openaiFailover"]]
                /\ calls' = [calls EXCEPT ![r] = Append(@,
                      [provider |-> "openai", model |-> failoverModel(selection),
                       why |-> "failover", cause |-> cause])]
           ELSE /\ respond(r, 500, NoResult, me.usedTier)
                /\ UNCHANGED calls
        /\ UNCHANGED <<anthropicKey, openaiKey, escalationCount>>

QueryInit ==
    /\ anthropicKey \in BOOLEAN
    /\ openaiKey \in BOOLEAN
    /\ req = [r \in Requests |-> IdleRequest]
    /\ escalationCount = [r \in Requests |-> 0]
    /\ calls = [r \in Requests |-> <<>>]

Arrive ==
    /\ \E r \in Requests, input \in RequestInputs : postArrive(r, input)
    /\ UNCHANGED nonQueryVars

ProviderOk ==
    /\ \E r \in Requests : \E result \in QueryResults(req[r].input.todos) :
          providerReturns(r, result)
    /\ UNCHANGED nonQueryVars

ProviderFail ==
    /\ \E r \in Requests, cause \in FailureCauses : providerThrows(r, cause)
    /\ UNCHANGED nonQueryVars

vars == <<clientVars, queryVars, pureVars, extractVars, todosVars, listVars, usageVars>>

\* the draft queue of one mounted TodoApp
Init ==
    /\ ClientInit /\ QueryInit /\ anthropicKey /\ openaiKey
    /\ probe = NoProbe /\ extraction = IdleExtraction /\ TodosInit /\ ListIdle /\ UsageIdle

Next ==
    \/ Submit
    \/ ClassifyDone
    \/ processNextDraft
    \/ ExtractDone
    \/ SaveDone
    \/ AnimateDone
    \/ queryAutoClear

Spec == Init /\ [][Next]_vars

\* the query route serving concurrent requests
QueryRouteInit ==
    ClientInit /\ QueryInit /\ probe = NoProbe /\ extraction = IdleExtraction /\ TodosInit /\ ListIdle /\ UsageIdle

QueryRouteNext ==
    \/ Arrive
    \/ ProviderOk
    \/ ProviderFail

QuerySpec == QueryRouteInit /\ [][QueryRouteNext]_vars

\* The draft queue when a submission may also fall into the millisecond of
\* the one before it: Date.now() is then equal and the ids differ only if
\* Math.random() does.  Nothing that takes time (the 100 ms timer, a network
\* call) lies between the two: no extraction has started and every
\* classification is still pending.  The classification calls of two drafts
\* with one id are tracked as one.
BurstSuffixes == Suffixes \cup {"0q7zmb"}

sameMillisecond ==
    /\ drafts # <<>>
    /\ Len(drafts) < MaxSubmits
    /\ drafts[1].id[1] = now
    /\ \A id \in DOMAIN classify : classify[id].pc = "pending"
    /\ \A id \in DOMAIN extractCalls : extractCalls[id] = 0

BurstSubmit ==
    /\ \E raw \in RawInputs, suffix \in BurstSuffixes :
          \/ enqueueDraftFromInput(raw, suffix, 1)
          \/ sameMillisecond /\ enqueueDraftFromInput(raw, suffix, 0)
    /\ UNCHANGED nonClientVars

BurstNext ==
    \/ BurstSubmit
    \/ ClassifyDone
    \/ processNextDraft
    \/ ExtractDone
    \/ SaveDone
    \/ AnimateDone
    \/ queryAutoClear

BurstSpec == Init /\ [][BurstNext]_vars

\* the draft queue under the scheduling the browser guarantees: a pending
\* timer fires, and every extraction, persistence and animation wait ends
FairSpec ==
    /\ Spec
    /\ WF_vars(processNextDraft)
    /\ WF_vars(ExtractDone)
    /\ WF_vars(SaveDone)
    /\ WF_vars(AnimateDone)

\* ------------------------------------------------- the tier selector alone
\* verdicts of analyzeExtractionComplexity and analyzeQueryComplexity, with
\* counts on both sides of the thresholds
TokenCounts == {0, 1000, 1001}
ParagraphCounts == {0, 1, 2, 3}

ExtractionVerdicts ==
    [estimatedTokens : TokenCounts, paragraphCount : ParagraphCounts,
     hasComplexDateReferences : BOOLEAN, hasMultipleConstraints : BOOLEAN]

QueryVerdicts ==
    [estimatedTokens : TokenCounts, isAmbiguous : BOOLEAN, hasMultipleFilters : BOOLEAN,
     needsSummarization : BOOLEAN, hasComplexDateMath : BOOLEAN]

SelectorProbes ==
    {[fn |-> "selectExtractionModel", input |-> a, done |-> FALSE, output |-> <<>>] :
        a \in ExtractionVerdicts}
    \cup {[fn |-> "selectQueryModel", input |-> a, done |-> FALSE, output |-> <<>>] :
        a \in QueryVerdicts}

\* selectExtractionModel returns
SelectExtraction ==
    /\ probe.fn = "selectExtractionModel"
    /\ ~probe.done
    /\ probe' = [probe EXCEPT !.done = TRUE, !.output = extractionTier(probe.input)]
    /\ UNCHANGED nonPureVars

\* selectQueryModel returns
SelectQuery ==
    /\ probe.fn = "selectQueryModel"
    /\ ~probe.done
    /\ probe' = [probe EXCEPT !.done = TRUE, !.output = queryTier(probe.input)]
    /\ UNCHANGED nonPureVars

SelectorInit ==
    /\ ClientInit /\ QueryInit /\ anthropicKey /\ openaiKey
    /\ probe \in SelectorProbes /\ extraction = IdleExtraction /\ TodosInit /\ ListIdle /\ UsageIdle

SelectorNext ==
    \/ SelectExtraction
    \/ SelectQuery

SelectorSpec == SelectorInit /\ [][SelectorNext]_vars

\* --------------------------------------------------- the token estimate
\* lengths around the 4000 characters that make 1000 estimated tokens
CharCounts == 3980..4005

\* corpora by the length of their serialization
SizedCorpora == {[ids |-> 1..16, chars |-> n] : n \in CharCounts}

\* texts by their length: the empty text and the sample queries
EstimateTexts == QueryTexts \cup {""}

\* analyzeExtractionComplexity of a text of the given length, of one
\* paragraph and with no date or constraint pattern
analyzeExtractionComplexity(chars) ==
    [estimatedTokens |-> estimatedTokens(chars), paragraphCount |-> 1,
     hasComplexDateReferences |-> FALSE, hasMultipleConstraints |-> FALSE]

EstimateProbes ==
    {[fn |-> "estimateExtraction", input |-> n, done |-> FALSE, output |-> <<>>] :
        n \in CharCounts}
    \cup {[fn |-> "estimateQuery", input |-> [text |-> t, todos |-> c],
           done |-> FALSE, output |-> <<>>] :
        t \in EstimateTexts, c \in SizedCorpora}

\* selectExtractionModel(text) returns
EstimateExtraction ==
    /\ probe.fn = "estimateExtraction"
    /\ ~probe.done
    /\ probe' = [probe EXCEPT !.done = TRUE,
                              !.output = [analysis |-> analyzeExtractionComplexity(probe.input),
                                          selection |-> extractionTier(
                                              analyzeExtractionComplexity(probe.input))]]
    /\ UNCHANGED nonPureVars

\* selectQueryModel(text, todos) returns
EstimateQuery ==
    /\ probe.fn = "estimateQuery"
    /\ ~probe.done
    /\ probe' = [probe EXCEPT !.done = TRUE,
                              !.output = [analysis |-> analyzeQueryComplexity(
                                              probe.input.text, probe.input.todos),
                                          selection |-> selectQueryModel(
                                              probe.input.text, probe.input.todos)]]
    /\ UNCHANGED nonPureVars

EstimateInit ==
    /\ ClientInit /\ QueryInit /\ anthropicKey /\ openaiKey
    /\ probe \in EstimateProbes /\ extraction = IdleExtraction /\ TodosInit /\ ListIdle /\ UsageIdle

EstimateNext ==
    \/ EstimateExtraction
    \/ EstimateQuery

EstimateSpec == EstimateInit /\ [][EstimateNext]_vars

\* --------------------------------------------------------- usage tracking
\* trackUsage up to the answer of its select: existingUsage
trackSelect(c) ==
    /\ tracking[c].pc = "idle"
    /\ tracking' = [tracking EXCEPT ![c] = [@ EXCEPT !.pc = "selected",
                                                   !.existing = usage.exists]]
    /\ UNCHANGED usage

\* the insert or the update of trackUsage: an insert for a user who has a
\* row by now breaks the unique constraint and throws into the catch; the
\* update adds one in the database
trackWrite(c) ==
    /\ tracking[c].pc = "selected"
    /\ IF ~tracking[c].existing /\ usage.exists
       THEN /\ UNCHANGED usage
            /\ tracking' = [tracking EXCEPT ![c] = [@ EXCEPT !.pc = "returned",
                                                           !.caught = "unique"]]
       ELSE /\ usage' = [exists |-> TRUE, totalRequests |-> usage.totalRequests + 1]
            /\ tracking' = [tracking EXCEPT ![c] = [@ EXCEPT !.pc = "returned"]]

\* a database call of trackUsage fails (connection, timeout): the catch logs
\* it and trackUsage returns
trackDbError(c) ==
    /\ tracking[c].pc \in {"idle", "selected"}
    /\ tracking' = [tracking EXCEPT ![c] = [@ EXCEPT !.pc = "returned",
                                                   !.caught = "db"]]
    /\ UNCHANGED usage

TrackSelect ==
    /\ \E c \in TrackIds : trackSelect(c)
    /\ UNCHANGED nonUsageVars

TrackWrite ==
    /\ \E c \in TrackIds : trackWrite(c)
    /\ UNCHANGED nonUsageVars

TrackDbError ==
    /\ \E c \in TrackIds : trackDbError(c)
    /\ UNCHANGED nonUsageVars

UsageInit ==
    /\ ClientInit /\ QueryInit /\ anthropicKey /\ openaiKey
    /\ probe = NoProbe /\ extraction = IdleExtraction /\ TodosInit /\ ListIdle /\ UsageIdle

UsageNext ==
    \/ TrackSelect
    \/ TrackWrite
    \/ TrackDbError

UsageSpec == UsageInit /\ [][UsageNext]_vars

\* ------------------------------------------------------- the extract route
\* request bodies and credentials: "ok" with the text given by the verdict
\* analyzeExtractionComplexity would reach on it, or the reason for rejection
ExtractionInputs ==
    [kind : {"ok"}, analysis : ExtractionVerdicts]
    \cup [kind : {"unauthorized", "badText"},
          analysis : {CHOOSE a \in ExtractionVerdicts :
                         a.estimatedTokens = 0 /\ a.paragraphCount = 0
                         /\ ~a.hasComplexDateReferences /\ ~a.hasMultipleConstraints}]

\* POST up to the first provider call: authentication, body validation, then
\* extractTodos.  extractWithClaude throws before any call when its key is
\* missing, and so does extractWithOpenAI.
extractPost(input) ==
    /\ extraction.pc \in {"idle", "done"}
    /\ extraction' =
          CASE input.kind = "unauthorized" ->
                  [pc |-> "done", input |-> input, calls |-> <<>>, status |-> 401]
            [] input.kind = "badText" ->
                  [pc |-> "done", input |-> input, calls |-> <<>>, status |-> 400]
            [] OTHER ->
                  IF anthropicKey
                  THEN [pc |-> "claude", input |-> input, status |-> 0,
                        calls |-> <<[provider |-> "anthropic",
                                     model |-> "claude-3-5-sonnet-20241022"]>>]
                  ELSE IF openaiKey
                  THEN [pc |-> "openai", input |-> input, status |-> 0,
                        calls |-> <<[provider |-> "openai", model |-> "gpt-4o"]>>]
                  ELSE [pc |-> "done", input |-> input, calls |-> <<>>, status |-> 500]

\* a provider call of extractTodos returns parsable JSON: 200 with its todos
extractProviderReturns ==
    /\ extraction.pc \in {"claude", "openai"}
    /\ extraction' = [extraction EXCEPT !.pc = "done", !.status = 200]

\* a provider call of extractTodos throws: Claude falls back to OpenAI when
\* its key is set; after OpenAI, "All AI providers failed" and 500
extractProviderThrows ==
    /\ extraction.pc \in {"claude", "openai"}
    /\ extraction' =
          IF extraction.pc = "claude" /\ openaiKey
          THEN [extraction EXCEPT !.pc = "openai",
                                  !.calls = Append(@, [provider |-> "openai",
                                                       model |-> "gpt-4o"])]
          ELSE [extraction EXCEPT !.pc = "done", !.status = 500]

ExtractArrive ==
    /\ \E input \in ExtractionInputs : extractPost(input)
    /\ UNCHANGED nonExtractVars

ExtractProviderOk ==
    /\ extractProviderReturns
    /\ UNCHANGED nonExtractVars

ExtractProviderFail ==
    /\ extractProviderThrows
    /\ UNCHANGED nonExtractVars

ExtractRouteInit ==
    ClientInit /\ QueryInit /\ probe = NoProbe /\ extraction = IdleExtraction /\ TodosInit /\ ListIdle /\ UsageIdle

ExtractRouteNext ==
    \/ ExtractArrive
    \/ ExtractProviderOk
    \/ ExtractProviderFail

ExtractRouteSpec == ExtractRouteInit /\ [][ExtractRouteNext]_vars

\* ------------------------------------------------------- the todos routes
\* A request without a session does not reach PUT and DELETE of
\* /api/todos/[id]: src/middleware.ts (clerkMiddleware with auth.protect())
\* turns it away; GET and POST of /api/todos also check auth() themselves.
rejectUnauthenticated(op) ==
    /\ response' = [op |-> op, caller |-> NoUser, status |-> 401, body |-> {}]
    /\ UNCHANGED <<todoRows, nextRowId>>

\* GET /api/todos: the caller's rows
todosGet(caller) ==
    IF caller = NoUser
    THEN rejectUnauthenticated("GET")
    ELSE /\ response' = [op |-> "GET", caller |-> caller, status |-> 200,
                         body |-> {row \in todoRows : row.userId = caller}]
         /\ UNCHANGED <<todoRows, nextRowId>>

\* POST /api/todos: insert a row owned by the caller (the id is serial)
todosPost(caller) ==
    IF caller = NoUser
    THEN rejectUnauthenticated("POST")
    ELSE LET row == [id |-> nextRowId, userId |-> caller, completed |-> FALSE]
         IN  /\ nextRowId <= MaxRows
             /\ todoRows' = todoRows \cup {row}
             /\ nextRowId' = nextRowId + 1
             /\ response' = [op |-> "POST", caller |-> caller, status |-> 201,
                             body |-> {row}]

\* PUT /api/todos/[id] with {completed}: update(todos).set(...)
\* .where(eq(todos.id, id)).returning(); the handler does not call auth()
todosPut(caller, id, completed) ==
    IF caller = NoUser
    THEN rejectUnauthenticated("PUT")
    ELSE LET hit == {row \in todoRows : row.id = id}
             updated == {[row EXCEPT !.completed = completed] : row \in hit}
         IN  /\ todoRows' = (todoRows \ hit) \cup updated
             /\ response' = [op |-> "PUT", caller |-> caller,
                             status |-> IF hit = {} THEN 404 ELSE 200,
                             body |-> updated]
             /\ UNCHANGED nextRowId

\* DELETE /api/todos/[id]: delete(todos).where(eq(todos.id, id)).returning();
\* the handler does not call auth()
todosDelete(caller, id) ==
    IF caller = NoUser
    THEN rejectUnauthenticated("DELETE")
    ELSE LET hit == {row \in todoRows : row.id = id}
         IN  /\ todoRows' = todoRows \ hit
             /\ response' = [op |-> "DELETE", caller |-> caller,
                             status |-> IF hit = {} THEN 404 ELSE 200,
                             body |-> {}]
             /\ UNCHANGED nextRowId

Callers == Users \cup {NoUser}

TodosGet ==
    /\ \E caller \in Callers : todosGet(caller)
    /\ UNCHANGED nonTodosVars

TodosPost ==
    /\ \E caller \in Callers : todosPost(caller)
    /\ UNCHANGED nonTodosVars

TodosPut ==
    /\ \E caller \in Callers, id \in 1..MaxRows, completed \in BOOLEAN :
          todosPut(caller, id, completed)
    /\ UNCHANGED nonTodosVars

TodosDelete ==
    /\ \E caller \in Callers, id \in 1..MaxRows : todosDelete(caller, id)
    /\ UNCHANGED nonTodosVars

TodosApiInit ==
    /\ ClientInit /\ QueryInit /\ anthropicKey /\ openaiKey
    /\ probe = NoProbe /\ extraction = IdleExtraction /\ TodosInit /\ ListIdle /\ UsageIdle

TodosApiNext ==
    \/ TodosGet
    \/ TodosPost
    \/ TodosPut
    \/ TodosDelete

TodosApiSpec == TodosApiInit /\ [][TodosApiNext]_vars

\* ------------------------------------------- the client's list of todos
\* the signed-in user of the page
Me == "user_a"

\* the rows fetchTodos loaded, newest first
LoadedRows ==
    {[id |-> i, userId |-> Me, completed |-> FALSE] : i \in 1..MaxRows}

loadedList == [i \in 1..MaxRows |-> [id |-> MaxRows + 1 - i, userId |-> Me, completed |-> FALSE]]

\* todos.find((t) => t.id === id)
findTodo(list, id) ==
    LET hits == SelectSeq(list, LAMBDA t : t.id = id)
    IN  IF hits = <<>> THEN <<>> ELSE <<hits[1]>>

\* toggleTodo up to its await: the todo is looked up in the todos of the
\* calling render, which the continuation will use again
toggleStart(id) ==
    LET found == findTodo(todoList, id)
    IN  /\ Cardinality(listOps) < MaxOps
        /\ found # <<>>
        /\ listOps' = listOps \cup
              {[kind |-> "toggle", n |-> Cardinality(listOps) + 1, pc |-> "pending",
                id |-> id, todo |-> found[1], todos |-> todoList]}
        /\ UNCHANGED <<todoList, todosVars>>

\* the PUT of a toggleTodo call returns; on 200 the continuation writes
\* todos.map(...) of the render that started the call
toggleReturns(op) ==
    /\ op \in listOps /\ op.kind = "toggle" /\ op.pc = "pending"
    /\ todosPut(Me, op.id, ~op.todo.completed)
    /\ listOps' = (listOps \ {op}) \cup {[op EXCEPT !.pc = "done"]}
    /\ todoList' =
          IF response'.status = 200
          THEN LET updatedTodo == CHOOSE row \in response'.body : TRUE
               IN  [i \in 1..Len(op.todos) |->
                      IF op.todos[i].id = op.id THEN updatedTodo ELSE op.todos[i]]
          ELSE todoList

\* fetch threw, or the handler answered 500: nothing changed on the server
requestFails(op) ==
    /\ op \in listOps /\ op.pc = "pending"
    /\ listOps' = (listOps \ {op}) \cup {[op EXCEPT !.pc = "done"]}
    /\ UNCHANGED todosVars

\* deleteTodo up to its await: snapshot of the todo, optimistic removal
deleteStart(id) ==
    LET found == findTodo(todoList, id)
    IN  /\ Cardinality(listOps) < MaxOps
        /\ found # <<>>
        /\ todoList' = SelectSeq(todoList, LAMBDA t : t.id # id)
        /\ listOps' = listOps \cup
              {[kind |-> "delete", n |-> Cardinality(listOps) + 1, pc |-> "pending",
                id |-> id, todo |-> found[1], todos |-> todoList]}
        /\ UNCHANGED todosVars

\* setTodos((prev) => [todoToDelete, ...prev])
rollback(op) == todoList' = <<op.todo>> \o todoList

\* the DELETE of a deleteTodo call returns: nothing more on 200, the
\* rollback when the response is not OK
deleteReturns(op) ==
    /\ op \in listOps /\ op.kind = "delete" /\ op.pc = "pending"
    /\ todosDelete(Me, op.id)
    /\ listOps' = (listOps \ {op}) \cup {[op EXCEPT !.pc = "done"]}
    /\ IF response'.status = 200 THEN UNCHANGED todoList ELSE rollback(op)

\* the DELETE of a deleteTodo call fails without reaching the table
deleteFails(op) ==
    /\ op.kind = "delete"
    /\ requestFails(op)
    /\ rollback(op)

\* the PUT of a toggleTodo call fails without reaching the table
toggleFails(op) ==
    /\ op.kind = "toggle"
    /\ requestFails(op)
    /\ UNCHANGED todoList

ListIds == 1..MaxRows

ToggleStart ==
    /\ \E id \in ListIds : toggleStart(id)
    /\ UNCHANGED nonListVars

ToggleDone ==
    /\ \E op \in listOps : toggleReturns(op) \/ toggleFails(op)
    /\ UNCHANGED nonListVars

DeleteStart ==
    /\ \E id \in ListIds : deleteStart(id)
    /\ UNCHANGED nonListVars

DeleteDone ==
    /\ \E op \in listOps : deleteReturns(op) \/ deleteFails(op)
    /\ UNCHANGED nonListVars

ListInit ==
    /\ ClientInit /\ QueryInit /\ anthropicKey /\ openaiKey
    /\ probe = NoProbe /\ extraction = IdleExtraction
    /\ todoRows = LoadedRows /\ nextRowId = MaxRows + 1 /\ response = NoResponse
    /\ todoList = loadedList /\ listOps = {} /\ UsageIdle

ListNext ==
    \/ ToggleStart
    \/ ToggleDone
    \/ DeleteStart
    \/ DeleteDone

ListSpec == ListInit /\ [][ListNext]_vars

\* --------------------------------------------- the result validator alone
\* todos: [] in a request body
EmptyCorpus == [ids |-> {}, chars |-> 2]

\* corpora on both sides of the minimum size of the over-broad rule
TenCorpus == [ids |-> 1..10, chars |-> 2452]
TwentyCorpus == [ids |-> 1..20, chars |-> 4902]

ValidatorCorpora == Corpora \cup {EmptyCorpus, TenCorpus, TwentyCorpus}

\* matchingTodoIds on both sides of the cap (100) and of the 90% share
MatchedIdSets == {{}, {1}, 1..9, 1..10, 1..11, 1..18, 1..19, 1..100, 1..101}

\* parsed provider responses: every combination of the fields the validator
\* and the confidence check read
ValidatorResults ==
    [isQuery : BOOLEAN, matchingTodoIds : MatchedIdSets,
     hasConfidence : BOOLEAN, confidence : {69, 95}]

ValidatorProbes ==
    {[fn |-> "validateQueryResults",
      input |-> [result |-> res, text |-> text, todos |-> corpus],
      done |-> FALSE, output |-> <<>>] :
        res \in ValidatorResults, text \in QueryTexts, corpus \in ValidatorCorpora}

\* validateQueryResults returns
Validate ==
    /\ probe.fn = "validateQueryResults"
    /\ ~probe.done
    /\ probe' = [probe EXCEPT
                    !.done = TRUE,
                    !.output = [isValid |-> validateQueryResults(probe.input.result,
                                                                probe.input.text,
                                                                probe.input.todos)]]
    /\ UNCHANGED nonPureVars

ValidatorInit ==
    /\ ClientInit /\ QueryInit /\ anthropicKey /\ openaiKey
    /\ probe \in ValidatorProbes /\ extraction = IdleExtraction /\ TodosInit /\ ListIdle /\ UsageIdle

ValidatorNext == Validate

ValidatorSpec == ValidatorInit /\ [][ValidatorNext]_vars

\* ------------------------------------------------------------- properties
statusIn(ds, id) ==
    IF \E i \in 1..Len(ds) : ds[i].id = id
    THEN (CHOOSE d \in Range(ds) : d.id = id).status
    ELSE "removed"

processingCount == Cardinality({i \in 1..Len(drafts) : drafts[i].status = "processing"})

AllDraftIds == (1..MaxSubmits) \X Suffixes

C3_QueryNeverProcessed ==
    \A id \in DOMAIN classify :
        classify[id].isQuery
            => /\ extractCalls[id] = 0
               /\ \A row \in stored : row.draft # id

\* the steps in which the extraction path of worker w fails
failsIn(w) ==
    \/ \E outcome \in {"notOk", "badShape"} : extractReturn(w, outcome, <<>>, "")
    \/ \E message \in ThrownMessages : extractReturn(w, "threw", <<>>, message)
    \/ \E inserted \in BOOLEAN, message \in ThrownMessages :
          saveReturn(w, "threw", inserted, message)

isErrorWithMessage(ds, id) ==
    \E i \in 1..Len(ds) : ds[i].id = id /\ ds[i].status = "error" /\ ds[i].error # ""

\* C6 (as claimed): whenever the extraction path of a draft fails the draft
\* ends with status error and a non-empty message, and a failed draft stays
\* in the queue.
C6_FailedDraftKept ==
    [][/\ \A w \in workers : (failsIn(w) => isErrorWithMessage(drafts', w.id))
       /\ \A i \in 1..Len(drafts) :
             (drafts[i].status = "error" => isErrorWithMessage(drafts', drafts[i].id))]_vars

isQueued(id) == statusIn(drafts, id) = "queued"

isProcessing(id) == statusIn(drafts, id) = "processing"

removedAsQuery(id) ==
    /\ id \in DOMAIN classify
    /\ classify[id].isQuery
    /\ id \notin DraftIds(drafts)

C8_ErrorNeverRetried ==
    [][\A i \in 1..Len(drafts) :
          drafts[i].status = "error"
              => /\ statusIn(drafts', drafts[i].id) \in {"error", "removed"}
                 /\ \A w \in workers' \ workers : w.id # drafts[i].id]_vars

\* C8 witness: the queue is at rest with an error draft left in it, after a
\* later drain trigger has processed the other submission.
C8_Witness ==
    /\ \E i \in 1..Len(drafts) : drafts[i].status = "error" /\ drafts[i].id[1] = 1
    /\ \E id \in DOMAIN extractCalls : id[1] = 2 /\ extractCalls[id] = 1
    /\ ~timer.set
    /\ workers = {}

classifiedAsQueryIn(id) ==
    /\ id \in DOMAIN classify
    /\ classify[id].pc = "pending"
    /\ classify'[id].isQuery

escalationsOf(r) == Len(SelectSeq(calls[r], LAMBDA c : c.why = "escalation"))

advancedCallsOf(r) == Len(SelectSeq(calls[r], LAMBDA c : tierOf(c.model) = "advanced"))

advancedCallsOn(r, provider) ==
    Len(SelectSeq(calls[r], LAMBDA c : tierOf(c.model) = "advanced" /\ c.provider = provider))

\* C4: a request escalates at most once, and the counter its guard consults
\* counts the escalations of that request alone.
C4_OneEscalationPerRequest ==
    \A r \in Requests :
        /\ escalationsOf(r) <= MAX_ESCALATIONS_PER_REQUEST
        /\ (req[r].pc \notin {"idle", "done"}
              => escalationCount[counterOf(r)] = escalationsOf(r))

\* C4 witness: two requests are in flight, each after its own escalation.
C4_Witness ==
    /\ req["r1"].pc = "anthropicEscalated"
    /\ req["r2"].pc = "anthropicEscalated"
    /\ escalationsOf("r1") = 1
    /\ escalationsOf("r2") = 1

\* C5 (as claimed): a request never invokes the advanced tier more than once.
C5_AdvancedAtMostOnce == \A r \in Requests : advancedCallsOf(r) <= 1

\* C5 (amended): a request invokes the advanced tier at most once per
\* provider; a second advanced invocation happens only as the failover of a
\* request whose initial selection was the advanced tier.
C5_AdvancedOncePerProvider ==
    \A r \in Requests :
        /\ advancedCallsOn(r, "anthropic") <= 1
        /\ advancedCallsOn(r, "openai") <= 1
        /\ (advancedCallsOf(r) > 1
              => /\ req[r].tier = "advanced"
                 /\ calls[r][Len(calls[r])].why = "failover")

\* C5 witness: an initially advanced request has failed over and has invoked
\* the advanced tier on both providers.
C5_Witness ==
    \E r \in Requests : req[r].pc = "done" /\ req[r].status = 200 /\ advancedCallsOf(r) = 2

\* C10 (as claimed): every identifier in the matchingTodoIds of a successful
\* response is the identifier of a task of the corpus sent with the request.
C10_MatchingIdsInCorpus ==
    \A r \in Requests :
        (req[r].pc = "done" /\ req[r].status = 200)
            => req[r].result.matchingTodoIds \subseteq req[r].input.todos.ids

\* the complexity signals of a verdict in their priority order, each with the
\* justification the selector reports for it
ExtractionSignals(a) ==
    <<[fired |-> a.estimatedTokens > 1000,
       reason |-> "Long input (>1k tokens) requires deeper processing"],
      [fired |-> a.paragraphCount > 2,
       reason |-> "Multi-paragraph input (>2) needs context understanding"],
      [fired |-> a.hasComplexDateReferences,
       reason |-> "Complex date/time references require advanced reasoning"],
      [fired |-> a.hasMultipleConstraints,
       reason |-> "Multiple constraints require careful parsing"]>>

QuerySignals(a) ==
    <<[fired |-> a.estimatedTokens > 1000,
       reason |-> "Large context (>1k tokens) requires advanced processing"],
      [fired |-> a.isAmbiguous,
       reason |-> "Ambiguous input requires careful interpretation"],
      [fired |-> a.hasMultipleFilters,
       reason |-> "Multi-constraint query needs complex reasoning"],
      [fired |-> a.needsSummarization,
       reason |-> "Summarization/planning requires high-quality prose"],
      [fired |-> a.hasComplexDateMath,
       reason |-> "Complex date calculations require advanced reasoning"]>>

\* index of the first fired signal, 0 when none fired
firstFired(signals) ==
    LET fired == {i \in 1..Len(signals) : signals[i].fired}
    IN  IF fired = {} THEN 0 ELSE CHOOSE i \in fired : \A j \in fired : i <= j

probeSignals ==
    IF probe.fn = "selectExtractionModel"
    THEN ExtractionSignals(probe.input) ELSE QuerySignals(probe.input)

\* C11: the selector returns the fast tier exactly when no signal fires, the
\* advanced tier when at least one fires, and then reports the reason of the
\* first fired signal in the priority order.
C11_TierFollowsFirstSignal ==
    (probe.done /\ probe.fn \in {"selectExtractionModel", "selectQueryModel"})
        => LET k == firstFired(probeSignals)
           IN  /\ probe.output.tier = (IF k = 0 THEN "fast" ELSE "advanced")
               /\ (k > 0 => probe.output.reason = probeSignals[k].reason)

\* C11 witness: a verdict with the token and the paragraph signal both fired
\* has been given the advanced tier with the token signal's reason.
C11_Witness ==
    /\ probe.done
    /\ probe.fn = "selectExtractionModel"
    /\ probe.input.estimatedTokens > 1000
    /\ probe.input.paragraphCount > 2
    /\ probe.output.tier = "advanced"
    /\ probe.output.reason = "Long input (>1k tokens) requires deeper processing"

\* the request has been answered with an inference result
answered(r) == req[r].pc = "done" /\ req[r].status = 200

lastCall(r) == calls[r][Len(calls[r])]

firstCallFast(r) == calls[r] # <<>> /\ tierOf(calls[r][1].model) = "fast"

\* the result is one the route escalates on
flagged(r, result) ==
    \/ isLowConfidence(result)
    \/ ~validateQueryResults(result, req[r].input.text, req[r].input.todos)

\* C12 (as claimed): when the first invocation of a request ran at the fast
\* tier and returned, a flagged result is followed by exactly one advanced
\* invocation and an unflagged one is returned with no further invocation;
\* and a request answered after an escalation returns the result of its one
\* advanced invocation.
C12_EscalationReturnsAdvanced ==
    [][\A r \in Requests :
          /\ (/\ req[r].pc \in {"anthropicPrimary", "openaiPrimary"}
               /\ tierOf(lastCall(r).model) = "fast"
               /\ req'[r].pc \in {"anthropicEscalated", "openaiEscalated", "done"}
               /\ (req'[r].pc = "done" => req'[r].status = 200))
                => IF flagged(r, req'[r].result)
                   THEN /\ req'[r].pc \in {"anthropicEscalated", "openaiEscalated"}
                        /\ Len(calls'[r]) = Len(calls[r]) + 1
                        /\ tierOf(lastCall(r)'.model) = "advanced"
                   ELSE /\ req'[r].pc = "done"
                        /\ calls'[r] = calls[r]
          /\ (firstCallFast(r)' /\ answered(r)' /\ escalationsOf(r)' >= 1)
                => /\ tierOf(lastCall(r)'.model) = "advanced"
                   /\ advancedCallsOf(r)' = 1]_vars

\* C13 (as claimed): every failover invocation runs at the tier of the
\* invocation that failed.
C13_FailoverKeepsTier ==
    \A r \in Requests : \A i \in 2..Len(calls[r]) :
        calls[r][i].why = "failover"
            => tierOf(calls[r][i].model) = tierOf(calls[r][i - 1].model)

\* the step is request r arriving while no provider key is set
arrivesWithoutProvider(r) ==
    /\ ~anthropicKey /\ ~openaiKey
    /\ \E input \in RequestInputs : input.kind = "ok" /\ postArrive(r, input)

\* the step is a provider call of request r failing with no provider left to
\* fail over to
lastProviderFails(r) ==
    /\ \E cause \in FailureCauses : providerThrows(r, cause)
    /\ req'[r].pc # "openaiFailover"

\* C14: a request that finds no provider configured, or whose last available
\* provider fails, ends with a non-2xx status and carries no inference result;
\* no request that ended in error carries one.
C14_NoProviderIsError ==
    [][\A r \in Requests :
          /\ (arrivesWithoutProvider(r) \/ lastProviderFails(r))
                => /\ req'[r].pc = "done"
                   /\ req'[r].status \in {500, 503}
                   /\ req'[r].result = NoResult
          /\ (req'[r].pc = "done" /\ req'[r].status # 200) => req'[r].result = NoResult]_vars

\* C14 witness: a request obtained a flagged fast result, escalated, failed
\* over and ended in error without a result.
C14_Witness ==
    \E r \in Requests :
        /\ req[r].pc = "done"
        /\ req[r].status = 500
        /\ req[r].result = NoResult
        /\ Len(calls[r]) = 3
        /\ lastCall(r).why = "failover"

\* C15 (as claimed): a malformed provider response is not retried: no
\* failover invocation follows a call that failed on a malformed response.
C15_MalformedNotRetried ==
    \A r \in Requests : \A i \in 1..Len(calls[r]) :
        calls[r][i].why = "failover" => calls[r][i].cause # "malformed"

\* C16 (as claimed): every answered request reports the tier actually used,
\* and it is the tier of the invocation whose result is returned.
C16_ReportsTierUsed ==
    \A r \in Requests :
        answered(r) => req[r].reportedTier = tierOf(lastCall(r).model)

\* the steps in which a POST /api/todos of worker w fails after its
\* extraction succeeded
persistFailsIn(w) ==
    \/ saveReturn(w, "notOk", FALSE, "")
    \/ \E inserted \in BOOLEAN, message \in ThrownMessages :
          saveReturn(w, "threw", inserted, message)

\* C17 (as claimed): when persisting a candidate of an extracted draft fails,
\* the draft is neither marked error like a failed extraction nor removed
\* like a draft whose candidates were all saved.
C17_PersistenceFailureDistinct ==
    [][\A w \in workers :
          (persistFailsIn(w)
              => /\ w.id \in DraftIds(drafts')
                 /\ \A i \in 1..Len(drafts') :
                       (drafts'[i].id = w.id => drafts'[i].status # "error"))]_vars

\* A drain trigger arrives while a draft is processing: the drain timer
\* fires, or the auto-process effect re-runs because drafts.length changed
\* under an unchanged processing flag.
drainWhileProcessing ==
    /\ \E i \in 1..Len(drafts) : drafts[i].status = "processing"
    /\ \/ processNextDraft
       \/ /\ Len(drafts') # Len(drafts)
          /\ isProcessingDraft' = isProcessingDraft

\* C18: a drain trigger that arrives while a draft is processing starts no
\* extraction call, arms no drain timer and leaves the processing flag and
\* the status of every draft as they were.
C18_DrainWhileProcessingNoOp ==
    [][drainWhileProcessing
          => /\ workers' = workers
             /\ \A id \in DOMAIN extractCalls : extractCalls'[id] = extractCalls[id]
             /\ \A id \in DOMAIN extractCalls' \ DOMAIN extractCalls :
                   extractCalls'[id] = 0
             /\ isProcessingDraft' = isProcessingDraft
             /\ ~timer'.set
             /\ \A i \in 1..Len(drafts) : \A j \in 1..Len(drafts') :
                   (drafts'[j].id = drafts[i].id => drafts'[j] = drafts[i])]_vars

\* C18 witness: a draft was submitted while the first one was processing;
\* the effect ran for it, and it is still queued with no extraction call and
\* no drain timer.
C18_Witness ==
    /\ isProcessingDraft
    /\ ~timer.set
    /\ \E i \in 1..Len(drafts) : drafts[i].id[1] = 1 /\ drafts[i].status = "processing"
    /\ \E i \in 1..Len(drafts) :
          /\ drafts[i].id[1] = 2
          /\ drafts[i].status = "queued"
          /\ extractCalls[drafts[i].id] = 0

\* the steps in which enqueueDraftFromInput runs for a non-empty text
enqueues ==
    \E raw \in RawInputs, suffix \in Suffixes :
        Trim(raw) # "" /\ enqueueDraftFromInput(raw, suffix, 1)

\* what every enqueue does to the queue: one new draft, queued, in front of
\* the existing drafts, which are unchanged; no extraction call is started
enqueueFrame ==
    /\ Len(drafts') = Len(drafts) + 1
    /\ drafts'[1].status = "queued"
    /\ drafts'[1].id \notin DraftIds(drafts)
    /\ Tail(drafts') = drafts
    /\ workers' = workers
    /\ isProcessingDraft' = isProcessingDraft
    /\ \A id \in DOMAIN extractCalls : extractCalls'[id] = extractCalls[id]
    /\ extractCalls'[drafts'[1].id] = 0

\* C19 (as claimed): enqueue of a non-empty text adds exactly one queued
\* draft, leaves every existing draft unchanged and invokes no inference
\* call, neither extraction nor classification.
C19_EnqueueInvokesNoInference ==
    [][enqueues => (enqueueFrame /\ classify' = classify)]_vars

\* C19 (amended): enqueue of a non-empty text adds exactly one queued draft,
\* leaves every existing draft unchanged and starts no extraction call; the
\* one inference call it issues is the classification request for the new
\* draft, which it does not wait for before the draft is in the queue.
C19_EnqueueStartsOnlyClassification ==
    [][enqueues
          => /\ enqueueFrame
             /\ DOMAIN classify' = DOMAIN classify \cup {drafts'[1].id}
             /\ classify'[drafts'[1].id].pc = "pending"
             /\ \A id \in DOMAIN classify : classify'[id] = classify[id]]_vars

\* C19 witness: a second text was enqueued while the first draft was being
\* processed; it is queued, its classification is pending, and the first
\* draft is still processing.
C19_Witness ==
    /\ Len(drafts) = 2
    /\ drafts[1].status = "queued"
    /\ drafts[1].id[1] = 2
    /\ classify[drafts[1].id].pc = "pending"
    /\ extractCalls[drafts[1].id] = 0
    /\ drafts[2].status = "processing"

\* the validated call is the claim's case: a cue in the text, a non-empty
\* corpus and no identifier in the response
zeroMatchesForQuestion ==
    /\ probe.fn = "validateQueryResults"
    /\ probe.done
    /\ isQuestionAboutTodos(probe.input.text)
    /\ probe.input.todos.ids # {}
    /\ probe.input.result.matchingTodoIds = {}

\* C20 (as claimed): a response with no identifier, for a text with a cue
\* and a non-empty corpus, is marked invalid whatever its other fields are.
C20_ZeroMatchesInvalid ==
    zeroMatchesForQuestion => ~probe.output.isValid

\* C20 (amended): such a response is marked invalid exactly when it says the
\* input is a query; with isQuery false the validator accepts it.
C20_ZeroMatchesInvalidIfQuery ==
    zeroMatchesForQuestion => (probe.output.isValid <=> ~probe.input.result.isQuery)

\* C20 witness: the validator rejected a zero-match response that was
\* classified as a query and carried a high confidence.
C20_Witness ==
    /\ zeroMatchesForQuestion
    /\ probe.input.result.isQuery
    /\ probe.input.result.hasConfidence
    /\ probe.input.result.confidence = 95
    /\ ~probe.output.isValid

\* the validator has answered the probed call
validated == probe.fn = "validateQueryResults" /\ probe.done

matchedCount == Cardinality(probe.input.result.matchingTodoIds)

corpusSize == Cardinality(probe.input.todos.ids)

\* rule 1: a question about todos, answered as a query, with no match
zeroMatchRule ==
    /\ isQuestionAboutTodos(probe.input.text)
    /\ corpusSize > 0
    /\ matchedCount = 0
    /\ probe.input.result.isQuery

\* rule 2: more than 100 identifiers
capRule == matchedCount > 100

\* rule 3: a narrowing cue, a corpus of more than 10 and a matched share
\* strictly above 90%
overBroadRule ==
    /\ isSpecificQuery(probe.input.text)
    /\ corpusSize > 10
    /\ 10 * matchedCount > 9 * corpusSize

fastResultAccepted(r) ==
    /\ req[r].pc \in {"anthropicPrimary", "openaiPrimary"}
    /\ tierOf(lastCall(r).model) = "fast"
    /\ req'[r].pc \in {"anthropicEscalated", "openaiEscalated", "done"}
    /\ (req'[r].pc = "done" => req'[r].status = 200)
    /\ validateQueryResults(req'[r].result, req[r].input.text, req[r].input.todos)

\* C22: a fast-tier result that passes validation is escalated exactly when
\* it carries a confidence strictly below 0.7 (70 hundredths); with 0.7 or
\* more, or with no confidence, it is returned without escalation.
C22_LowConfidenceBelowThreshold ==
    [][\A r \in Requests :
          (fastResultAccepted(r)
              => ((req'[r].pc \in {"anthropicEscalated", "openaiEscalated"})
                    <=> (req'[r].result.hasConfidence /\ req'[r].result.confidence < 70)))]_vars

\* C22 witness: a fast-tier result with confidence exactly 0.7 was returned
\* after a single invocation.
C22_Witness ==
    \E r \in Requests :
        /\ answered(r)
        /\ Len(calls[r]) = 1
        /\ tierOf(calls[r][1].model) = "fast"
        /\ req[r].result.hasConfidence
        /\ req[r].result.confidence = 70

\* request r is the scenario: "show me work stuff" over 50 todos, 5 of them
\* tagged work
workScenario(r) ==
    /\ req[r].input.kind = "ok"
    /\ req[r].input.text = "show me work stuff"
    /\ req[r].input.todos = FiftyCorpus

noEscalation(r) == \A i \in 1..Len(calls[r]) : calls[r][i].why # "escalation"

enqueuesWhileProcessing ==
    /\ \E i \in 1..Len(drafts) : drafts[i].status = "processing"
    /\ enqueues

\* C24: a submission made while a draft is processing is accepted, its
\* classification call is issued at once, the new draft waits as queued and
\* the draft in processing goes on; no second extraction runs in parallel.
C24_ClassificationOutsideLock ==
    [][/\ (enqueuesWhileProcessing
             => /\ drafts'[1].status = "queued"
                /\ classify'[drafts'[1].id].pc = "pending"
                /\ Tail(drafts') = drafts
                /\ workers' = workers)
       /\ Cardinality(workers') <= 1]_vars

\* C24 witness: the extraction call of the first draft and the
\* classification call of the second are in flight together, and the second
\* draft is queued.
C24_Witness ==
    /\ \E w \in workers : w.pc = "extract" /\ w.id[1] = 1
    /\ \E id \in DOMAIN classify :
          /\ id[1] = 2
          /\ classify[id].pc = "pending"
          /\ statusIn(drafts, id) = "queued"

\* C25 (as claimed): the queue has a reset operation that takes a draft in
\* error back to queued, after which it is processed; for a caller who
\* resets every failed draft, a draft in error is eventually queued or
\* processing again.
C25_ErrorDraftCanBeReset ==
    \A id \in AllDraftIds :
        (statusIn(drafts, id) = "error")
            ~> (statusIn(drafts, id) \in {"queued", "processing"})

\* the models selectExtractionModel returns for the text of the request
selectedExtractionModel(provider) ==
    LET selection == extractionTier(extraction.input.analysis)
    IN  IF provider = "anthropic" THEN selection.anthropicModel ELSE selection.openaiModel

\* C26 (as claimed): every model the extract route invokes is the one
\* selectExtractionModel returns for the text, for the provider invoked.
C26_ExtractionUsesSelectedModel ==
    \A i \in 1..Len(extraction.calls) :
        extraction.calls[i].model = selectedExtractionModel(extraction.calls[i].provider)

\* C27 (as claimed): a request never returns, changes or deletes a row owned
\* by a user other than its caller, and a request without a session gets 401
\* and changes nothing.
C27_TodosPrivate ==
    [][/\ \A row \in todoRows : (row.userId # response'.caller => row \in todoRows')
       /\ \A row \in response'.body : row.userId = response'.caller
       /\ (response'.caller = NoUser
             => (response'.status = 401 /\ todoRows' = todoRows))]_vars

\* C28 (as claimed): no two drafts in the queue carry the same id.
C28_DraftIdsDistinct ==
    \A i, j \in 1..Len(drafts) : (i # j => drafts[i].id # drafts[j].id)

\* the step is the DELETE of op failing and its rollback
deleteRollsBack(op) ==
    /\ op \in listOps /\ op.kind = "delete" /\ op.pc = "pending"
    /\ \/ deleteFails(op)
       \/ deleteReturns(op) /\ response'.status # 200

\* C29 (as claimed): a failed delete puts the todo back, so that the list
\* holds what it would hold without the delete: the todos it held while the
\* delete was pending and the deleted one, each todo once.
C29_DeleteRollsBack ==
    [][\A op \in listOps :
          (deleteRollsBack(op)
              => /\ Range(todoList') = Range(todoList) \cup {op.todo}
                 /\ \A i, j \in 1..Len(todoList') :
                       (i # j => todoList'[i].id # todoList'[j].id))]_vars

\* a complexity trigger fires for the input of request r
triggerFired(r) ==
    firstFired(QuerySignals(analyzeQueryComplexity(req[r].input.text, req[r].input.todos))) > 0

\* call i of request r is the escalation of a fast-tier call that returned
escalationStep(r, i) ==
    /\ i > 1
    /\ calls[r][i].why = "escalation"
    /\ tierOf(calls[r][i - 1].model) = "fast"

\* C30 (as claimed): the first invocation of a request is at the fast tier,
\* and every advanced-tier invocation is the escalation step after a
\* fast-tier result.
C30_FirstInvocationFast ==
    \A r \in Requests :
        /\ (calls[r] # <<>> => tierOf(calls[r][1].model) = "fast")
        /\ \A i \in 1..Len(calls[r]) :
              (tierOf(calls[r][i].model) = "advanced" => escalationStep(r, i))

\* C30 (amended): the first invocation is at the tier the selector chose:
\* the fast tier when no complexity trigger fired, the advanced tier from the
\* start when one did.  When the first invocation was fast, an advanced-tier
\* invocation only occurs as the escalation step after a fast-tier result;
\* when it was advanced, every invocation is advanced and none an escalation.
C30_FirstInvocationAtSelectedTier ==
    \A r \in Requests :
        calls[r] # <<>>
            => /\ tierOf(calls[r][1].model) = (IF triggerFired(r) THEN "advanced" ELSE "fast")
               /\ calls[r][1].why = "initial"
               /\ \A i \in 1..Len(calls[r]) :
                     IF triggerFired(r)
                     THEN /\ tierOf(calls[r][i].model) = "advanced"
                          /\ calls[r][i].why # "escalation"
                     ELSE (tierOf(calls[r][i].model) = "advanced" => escalationStep(r, i))

\* C30 witness: a request asking for a summary over the small corpus was
\* answered by a single invocation, at the advanced tier.
C30_Witness ==
    \E r \in Requests :
        /\ answered(r)
        /\ req[r].input.text = "summarize my week"
        /\ req[r].input.todos = SmallCorpus
        /\ Len(calls[r]) = 1
        /\ tierOf(calls[r][1].model) = "advanced"

\* the step is the alternate provider returning result to request r after a
\* failover of its first, fast-tier invocation
failoverReturnsFast(r, result) ==
    /\ req[r].pc = "openaiFailover"
    /\ req[r].tier = "fast"
    /\ escalationsOf(r) = 0
    /\ tierOf(lastCall(r).model) = "fast"
    /\ providerReturns(r, result)

\* C31 (as claimed): a fast-tier result obtained from the alternate provider
\* after a failover is checked like a result of the primary provider: when
\* it is low in confidence or suspicious the request escalates once to the
\* advanced tier, otherwise it is the answer.
C31_FailoverResultChecked ==
    [][\A r \in Requests : \A result \in QueryResults(req[r].input.todos) :
          failoverReturnsFast(r, result)
              => IF flagged(r, result)
                 THEN /\ Len(calls'[r]) = Len(calls[r]) + 1
                      /\ lastCall(r)'.why = "escalation"
                      /\ tierOf(lastCall(r)'.model) = "advanced"
                 ELSE /\ answered(r)'
                      /\ req'[r].result = result]_vars

\* the step is the POST /api/todos of worker w for its next candidate
\* coming back
submitsNext(w) ==
    \/ \E outcome \in {"ok", "notOk"} : saveReturn(w, outcome, FALSE, "")
    \/ \E inserted \in BOOLEAN, message \in ThrownMessages :
          saveReturn(w, "threw", inserted, message)

\* C32 (as claimed): after a successful extraction the candidates with a
\* string text are submitted one by one in the order returned, each once;
\* while submissions are outstanding the draft is in the queue with status
\* processing, and it leaves the queue only with the last submission.
C32_SubmittedOnceThenRemoved ==
    [][\A w \in workers :
          w.pc = "save"
              => /\ isProcessing(w.id)
                 /\ ((submitsNext(w) /\ Tail(w.cands) # <<>>)
                        => \E v \in workers' :
                              /\ v.id = w.id
                              /\ v.pc = "save"
                              /\ v.cands = Tail(w.cands))
                 /\ (w.id \notin DraftIds(drafts')
                        => submitsNext(w) /\ Tail(w.cands) = <<>>)]_vars

\* the characters the estimate of the probe counts
probeChars ==
    IF probe.fn = "estimateQuery"
    THEN textLength(probe.input.text) + probe.input.todos.chars
    ELSE probe.input

\* the token signal decided the tier of the probe
tokenSignalFired ==
    probe.output.selection.reason \in
        {"Long input (>1k tokens) requires deeper processing",
         "Large context (>1k tokens) requires advanced processing"}

\* C33: the estimate is ceil(chars / 4), and the token signal fires exactly
\* when it is above 1000, that is for more than 4000 characters; a query
\* counts the text and the serialized corpus, so a corpus of more than 4000
\* characters gets the advanced tier whatever the text.
C33_TokenSignal ==
    (probe.done /\ probe.fn \in {"estimateExtraction", "estimateQuery"})
        => LET tokens == probe.output.analysis.estimatedTokens
           IN  /\ 4 * (tokens - 1) < probeChars
               /\ probeChars <= 4 * tokens
               /\ (tokenSignalFired <=> tokens > 1000)
               /\ (tokenSignalFired <=> probeChars > 4000)
               /\ ((probe.fn = "estimateQuery" /\ probe.input.todos.chars > 4000)
                     => probe.output.selection.tier = "advanced")

\* C33 witness: the empty text over a corpus of 4001 characters was given
\* 1001 estimated tokens and the advanced tier.
C33_Witness ==
    /\ probe.done
    /\ probe.fn = "estimateQuery"
    /\ probe.input.text = ""
    /\ probe.input.todos.chars = 4001
    /\ probe.output.analysis.estimatedTokens = 1001
    /\ probe.output.selection.tier = "advanced"

\* C34 (as claimed): the processing flag is set exactly when one draft of
\* the queue has status processing.
C34_FlagMatchesStatuses == isProcessingDraft <=> (processingCount = 1)

\* C35 (as claimed): no task of a draft with status error exists in storage.
C35_ErrorDraftPersistedNothing ==
    \A i \in 1..Len(drafts) :
        drafts[i].status = "error"
            => \A row \in stored : row.draft # drafts[i].id

\* C36: no draft is sent to extraction more than once, whatever the
\* submissions, classification results, failures and timer firings.
C36_ExtractedAtMostOnce ==
    \A id \in DOMAIN extractCalls : extractCalls[id] <= 1

\* C36 witness: two drafts were each sent to extraction once; the first one
\* failed and stays in the queue with status error, the second is processing.
C36_Witness ==
    \E i, j \in 1..Len(drafts) :
        /\ drafts[i].status = "error"
        /\ drafts[j].status = "processing"
        /\ extractCalls[drafts[i].id] = 1
        /\ extractCalls[drafts[j].id] = 1

\* the step is the classification request of draft id failing
classificationFails(id) == classifyReturn(id, "failed", {})

classificationFailed(id) == id \in DOMAIN classify /\ classify[id].pc = "failed"

\* C37: a failing classification request leaves the queue as it is, so that
\* the draft is neither removed nor marked error and a queued draft stays
\* queued; a queued draft whose classification failed is then processed.
C37_ClassificationFailureKeepsDraft ==
    /\ [][\A id \in DOMAIN classify : (classificationFails(id) => drafts' = drafts)]_vars
    /\ \A id \in AllDraftIds :
          (classificationFailed(id) /\ isQueued(id)) ~> isProcessing(id)

\* C37 witness: a draft whose classification request failed is being
\* processed, after the other submission was extracted and left the queue.
C37_Witness ==
    \E i \in 1..Len(drafts) :
        /\ classificationFailed(drafts[i].id)
        /\ drafts[i].status = "processing"
        /\ Len(drafts) = 1
        /\ \E id \in DOMAIN extractCalls : id # drafts[i].id /\ extractCalls[id] = 1

\* the trackUsage calls made
trackCallsMade == {c \in TrackIds : tracking[c].pc # "idle"}

\* every call made has returned, and no database call failed for a reason
\* other than the table's constraints
trackingSettled ==
    \A c \in trackCallsMade :
        tracking[c].pc = "returned" /\ tracking[c].caught # "db"

\* C38 (as claimed): once the trackUsage calls for a user have returned,
\* total_requests of the user equals the number of calls made.
C38_NoRequestLost ==
    trackingSettled => usage.totalRequests = Cardinality(trackCallsMade)

====
